---- MODULE Spec2Model ----
(***************************************************************************)
(* Model of the CPT analysis report generator (src/app_improved.py).       *)
(*                                                                         *)
(* A dataset is the table pandas.read_csv returns: a set of column names   *)
(* and an ordered sequence of rows.  A cell is <<>> when it is missing     *)
(* (pandas NaN) and <<v>> when it holds the value v.  A rate is a number   *)
(* of cents.  A derived figure is <<>> (NaN) or <<num, den>>, which stands *)
(* for the IEEE-754 double nearest to num/den cents: where the exact value *)
(* lies half-way between two displayed values, the displayed cell is the   *)
(* one the double rounds to.                                               *)
(***************************************************************************)
EXTENDS Integers, Sequences, FiniteSets, TLC

VARIABLES
    file,           \* content of the input file: a dataset or Unreadable
    preview,        \* what show_report_preview rendered last
    report,         \* what generate_custom_cpt_report built last
    earlier,        \* what it built the time before
    preview_ready,  \* st.session_state.preview_ready
    sort_kind,      \* what the installed numpy's quicksort does with equal counts
    now,            \* the clock datetime.now() reads
    ui,             \* per browser session: widgets, st.session_state, script position, page
    disk            \* the temp_<name> files of the working directory

vars == <<file, preview, report, earlier, preview_ready, sort_kind, now, ui, disk>>

(***************************************************************************)
(* Bounds of the model                                                     *)
(***************************************************************************)
MaxRows == 2        \* rows of a dataset with arbitrary cells
MaxSchemaRows == 1  \* rows of a dataset drawn together with every schema
MaxRateRows == 3    \* rows of a dataset with arbitrary rates only
MaxWide == 16       \* rows of a dataset with one category value per row
MaxExtra == 1       \* arbitrary rows appended to such a dataset
MaxClock == 1       \* ticks of the clock

(***************************************************************************)
(* Constants of the program                                                *)
(***************************************************************************)
TopCities == 15         \* city_stats.head(15)
PreviewCities == 10     \* city_stats.head(10)
CityNameWidth == 20     \* city[:20] + "..."

NA == <<>>
IsNA(c) == c = <<>>
Some(v) == <<v>>

RECURSIVE SeqSum(_)
SeqSum(s) == IF s = <<>> THEN 0 ELSE Head(s) + SeqSum(Tail(s))

RECURSIVE SeqSumSq(_)
SeqSumSq(s) == IF s = <<>> THEN 0 ELSE Head(s) * Head(s) + SeqSumSq(Tail(s))

Min2(a, b) == IF a <= b THEN a ELSE b

(***************************************************************************)
(* Rounding to the nearest integer, ties to even: what Python's format     *)
(* specification and numpy's round do to a value num/den (den > 0).        *)
(***************************************************************************)
RoundHalfEven(num, den) ==
    LET q == num \div den
        r == num % den
    IN  IF 2 * r < den THEN q
        ELSE IF 2 * r > den THEN q + 1
        ELSE IF q % 2 = 0 THEN q ELSE q + 1

(***************************************************************************)
(* IEEE-754 doubles.  The double nearest to a/b dollars (a, b > 0) is      *)
(* m * 2^-s with m the integer nearest to a * 2^s / b, 2^52 <= m < 2^53.   *)
(***************************************************************************)
RECURSIVE Pow2(_)
Pow2(n) == IF n = 0 THEN 1 ELSE 2 * Pow2(n - 1)

RECURSIVE Pow2Mod(_, _)
Pow2Mod(n, m) == IF n = 0 THEN 1 % m ELSE (2 * Pow2Mod(n - 1, m)) % m

\* the largest e >= 0 with 2^e <= a/b, for a/b >= 1
RECURSIVE Log2From(_, _, _)
Log2From(e, a, b) == IF Pow2(e + 1) * b <= a THEN Log2From(e + 1, a, b) ELSE e

\* the smallest j > 0 with a/b * 2^j >= 1, for a/b < 1
RECURSIVE Log2Up(_, _, _)
Log2Up(j, a, b) == IF a * Pow2(j) < b THEN Log2Up(j + 1, a, b) ELSE j

\* the binary exponent of a/b: the e with 2^e <= a/b < 2^(e+1)
Log2Floor(a, b) == IF a >= b THEN Log2From(0, a, b) ELSE 0 - Log2Up(1, a, b)

\* where the double nearest to a/b lies, and how far off it is in units of
\* 1/b of its last mantissa bit
DoubleOf(a, b) ==
    LET s == 52 - Log2Floor(a, b)
        rem2 == ((a % (2 * b)) * Pow2Mod(s, 2 * b)) % (2 * b)
        rho == rem2 % b
    IN  IF rho = 0 THEN [side |-> "exact", off |-> 0]
        ELSE IF 2 * rho < b THEN [side |-> "below", off |-> rho]
        ELSE IF 2 * rho > b THEN [side |-> "above", off |-> b - rho]
        ELSE IF rem2 < b THEN [side |-> "below", off |-> rho]
        ELSE [side |-> "above", off |-> rho]

\* f"{x:.2f}" of the double nearest to num/den cents, in cents: the decimal
\* nearest to the double itself
Format2(num, den) ==
    LET q == num \div den
        d == DoubleOf(num, 100 * den)
    IN  IF 2 * (num % den) # den \/ d.side = "exact" THEN RoundHalfEven(num, den)
        ELSE IF d.side = "below" THEN q ELSE q + 1

\* numpy.round(x, 2) of the double nearest to num/den cents, in cents:
\* rint(x * 100) / 100, where the product is rounded to a double first
Round2(num, den) ==
    LET q == num \div den
        a == num
        b == 100 * den
        d == DoubleOf(a, b)
        e == Log2Floor(a, b)
        low == IF e >= 0 THEN 100 * a < 128 * Pow2(e) * b
               ELSE 100 * a * Pow2(0 - e) < 128 * b
        drop == IF low THEN 6 ELSE 7
    IN  IF 2 * (num % den) # den \/ d.side = "exact" THEN RoundHalfEven(num, den)
        ELSE IF 100 * d.off <= Pow2(drop - 1) * b THEN RoundHalfEven(num, den)
        ELSE IF d.side = "below" THEN q ELSE q + 1

RECURSIVE ISqrtIn(_, _, _)
ISqrtIn(lo, hi, n) ==
    IF lo >= hi THEN lo
    ELSE LET mid == (lo + hi + 1) \div 2
         IN  IF mid * mid <= n THEN ISqrtIn(mid, hi, n) ELSE ISqrtIn(lo, mid - 1, n)

\* floor of the square root of n, 0 <= n < 2^31
ISqrt(n) == ISqrtIn(0, 46340, n)

(***************************************************************************)
(* pandas: Series.dropna, sort, mean, median, min, max, quantile, std      *)
(***************************************************************************)
RECURSIVE dropna(_)
dropna(s) ==
    IF s = <<>> THEN <<>>
    ELSE IF IsNA(Head(s)) THEN dropna(Tail(s))
    ELSE <<Head(s)[1]>> \o dropna(Tail(s))

RECURSIVE InsertAsc(_, _)
InsertAsc(s, v) ==
    IF s = <<>> THEN <<v>>
    ELSE IF v < Head(s) THEN <<v>> \o s
    ELSE <<Head(s)>> \o InsertAsc(Tail(s), v)

RECURSIVE SortAsc(_)
SortAsc(s) == IF s = <<>> THEN <<>> ELSE InsertAsc(SortAsc(Tail(s)), Head(s))

\* Series.mean(): NaN cells are skipped; NaN when nothing is left
mean(s) ==
    LET x == dropna(s)
    IN  IF x = <<>> THEN NA ELSE <<SeqSum(x), Len(x)>>

\* Series.median(): the middle value, or the mean of the two middle values
median(s) ==
    LET x == SortAsc(dropna(s))
        n == Len(x)
    IN  IF n = 0 THEN NA
        ELSE IF n % 2 = 1 THEN <<x[(n + 1) \div 2], 1>>
        ELSE <<x[n \div 2] + x[n \div 2 + 1], 2>>

series_min(s) ==
    LET x == SortAsc(dropna(s))
    IN  IF x = <<>> THEN NA ELSE <<x[1], 1>>

series_max(s) ==
    LET x == SortAsc(dropna(s))
    IN  IF x = <<>> THEN NA ELSE <<x[Len(x)], 1>>

\* quantile without the sort: the interpolation runs over the rates in file order
quantile_unsorted(s, p) ==
    LET x == dropna(s)
        n == Len(x)
        pos == p * (n - 1)
        lo == pos \div 100
        rem == pos % 100
    IN  IF n = 0 THEN NA
        ELSE IF rem = 0 THEN <<x[lo + 1], 1>>
        ELSE <<100 * x[lo + 1] + (x[lo + 2] - x[lo + 1]) * rem, 100>>

\* quantile with interpolation='lower': the sorted value below the position
quantile_lower(s, p) ==
    LET x == SortAsc(dropna(s))
        n == Len(x)
    IN  IF n = 0 THEN NA ELSE <<x[(p * (n - 1)) \div 100 + 1], 1>>

\* Series.quantile(p/100), linear interpolation at position p/100 * (n-1)
quantile(s, p) ==
    LET x == SortAsc(dropna(s))
        n == Len(x)
        pos == p * (n - 1)
        lo == pos \div 100
        rem == pos % 100
    IN  IF n = 0 THEN NA
        ELSE IF rem = 0 THEN <<x[lo + 1], 1>>
        ELSE <<100 * x[lo + 1] + (x[lo + 2] - x[lo + 1]) * rem, 100>>

RECURSIVE Gcd(_, _)
Gcd(a, b) == IF b = 0 THEN a ELSE Gcd(b, a % b)

RECURSIVE SeqGcd(_)
SeqGcd(s) == IF s = <<>> THEN 0 ELSE Gcd(Head(s), SeqGcd(Tail(s)))

\* Series.std() (ddof = 1) followed by round(2): a whole number of cents.
\* With d the distances from the lowest rate in units of their common
\* divisor g, the variance is g^2 * nv/dv; the result is the integer nearest
\* to its square root r, and what numpy.round makes of r + 1/2 when the root
\* is that.
std_round2(s) ==
    LET x == dropna(s)
        n == Len(x)
        lowest == SortAsc(x)[1]
        g0 == SeqGcd([i \in 1..n |-> x[i] - lowest])
        g == IF g0 = 0 THEN 1 ELSE g0
        d == [i \in 1..n |-> (x[i] - lowest) \div g]
        nv == n * SeqSumSq(d) - SeqSum(d) * SeqSum(d)
        dv == n * (n - 1)
        whole == (nv \div dv) * g * g + ((nv % dv) * g * g) \div dv
        fnum == ((nv % dv) * g * g) % dv
        r == ISqrt(whole)
        up == IF whole # r * r + r THEN whole > r * r + r ELSE 4 * fnum > dv
    IN  IF n < 2 THEN NA
        ELSE IF whole = r * r + r /\ 4 * fnum = dv THEN <<Round2(2 * r + 1, 2), 1>>
        ELSE <<IF up THEN r + 1 ELSE r, 1>>

\* DataFrame.round(2) of a mean or median
round2(x) == IF IsNA(x) THEN NA ELSE <<Round2(x[1], x[2]), 1>>

(***************************************************************************)
(* pandas: Series.value_counts, sort_values, head, groupby                 *)
(***************************************************************************)
RECURSIVE Count(_, _)
Count(s, v) ==
    IF s = <<>> THEN 0
    ELSE (IF Head(s) = v THEN 1 ELSE 0) + Count(Tail(s), v)

Member(s, v) == \E i \in 1..Len(s) : s[i] = v

\* the distinct values of s in the order of their first appearance
RECURSIVE UniqueFrom(_, _)
UniqueFrom(seen, s) ==
    IF s = <<>> THEN seen
    ELSE IF Member(seen, Head(s)) THEN UniqueFrom(seen, Tail(s))
    ELSE UniqueFrom(Append(seen, Head(s)), Tail(s))

unique(s) == UniqueFrom(<<>>, s)

\* insert an entry after every entry whose count is at least as large
RECURSIVE InsertDesc(_, _)
InsertDesc(s, e) ==
    IF s = <<>> THEN <<e>>
    ELSE IF Head(s).count < e.count THEN <<e>> \o s
    ELSE <<Head(s)>> \o InsertDesc(Tail(s), e)

\* descending by count, entries of equal count keep their order
RECURSIVE StableDesc(_)
StableDesc(s) ==
    IF s = <<>> THEN <<>>
    ELSE InsertDesc(StableDesc(SubSeq(s, 1, Len(s) - 1)), s[Len(s)])

\* the first entry moved behind the others
Rotate(s) == IF s = <<>> THEN <<>> ELSE Tail(s) \o <<Head(s)>>

\* the orders the default sort (kind='quicksort') leaves entries of equal
\* count in: numpy documents it as not stable, so the order depends on the
\* installed build; the model draws it from the order the entries come in
\* and an order that is not that one
SortKinds == {"keeps_ties", "moves_ties"}

\* Series.sort_values(ascending=False) of a series of counts
sort_values_desc(s) ==
    IF sort_kind = "keeps_ties" THEN StableDesc(s) ELSE StableDesc(Rotate(s))

\* Series.value_counts(): missing cells are dropped (dropna=True), one entry
\* per distinct value in the order of first appearance, then sort_values
value_counts(s) ==
    LET x == dropna(s)
        keys == unique(x)
    IN  sort_values_desc([i \in 1..Len(keys) |-> [key |-> keys[i], count |-> Count(x, keys[i])]])

head(s, n) == SubSeq(s, 1, Min2(n, Len(s)))

\* the names the datasets draw their category values from, each list in
\* the lexicographic order groupby sorts its keys in
ClassNames == <<"ambulatory", "facility", "institutional", "outpatient", "professional", "surgical">>

TypeNames == <<"bundled", "derived", "fee schedule", "negotiated", "per diem", "percentage">>

CityNames ==
    <<"Albany", "Boston", "Chicago", "Denver", "El Paso", "Fresno", "Greensboro",
      "Houston", "Indianapolis", "Jacksonville", "Kansas City", "Las Vegas",
      "Memphis", "Nashville", "Oakland", "Phoenix", "Rancho Santa Margarita",
      "Sacramento", "Tampa", "Utica">>

KeyRank(names, k) == CHOOSE i \in 1..Len(names) : names[i] = k

RECURSIVE InsertKey(_, _, _)
InsertKey(names, s, k) ==
    IF s = <<>> THEN <<k>>
    ELSE IF KeyRank(names, k) < KeyRank(names, Head(s)) THEN <<k>> \o s
    ELSE <<Head(s)>> \o InsertKey(names, Tail(s), k)

RECURSIVE SortKeys(_, _)
SortKeys(names, s) ==
    IF s = <<>> THEN <<>> ELSE InsertKey(names, SortKeys(names, Tail(s)), Head(s))

(***************************************************************************)
(* The dataset                                                             *)
(***************************************************************************)
Column(df, name) == [i \in 1..Len(df.rows) |-> df.rows[i][name]]

\* df[df[name] == key][of]: the cells of column `of` in the rows whose
\* column `name` holds key
RECURSIVE SelectRows(_, _, _, _)
SelectRows(rows, name, key, of) ==
    IF rows = <<>> THEN <<>>
    ELSE (IF Head(rows)[name] = Some(key) THEN <<Head(rows)[of]>> ELSE <<>>)
         \o SelectRows(Tail(rows), name, key, of)

\* df.groupby(name)[of]: one group per distinct non-missing key, the keys sorted
groupby(df, names, name, of) ==
    LET keys == SortKeys(names, unique(dropna(Column(df, name))))
    IN  [i \in 1..Len(keys) |-> [key |-> keys[i], cells |-> SelectRows(df.rows, name, keys[i], of)]]

(***************************************************************************)
(* Displayed cells.  k names the format, n is the number shown in units    *)
(* of the last displayed digit, s is the text of a cell that is no number. *)
(***************************************************************************)
Cell(k, n, s) == [k |-> k, n |-> n, s |-> s]
Text(s) == Cell("text", 0, s)

\* str(count) and f"{count:,}"
FmtInt(n) == Cell("int", n, "")

\* f"${x:.2f}": a number of cents
FmtUsd2(x) == IF IsNA(x) THEN Text("$nan") ELSE Cell("usd.2f", Format2(x[1], x[2]), "")

\* f"${x:.0f}" and f"${x:,.0f}": a number of dollars; a value half-way between
\* two dollars is a double itself
FmtUsd0(x) ==
    IF IsNA(x) THEN Text("$nan") ELSE Cell("usd.0f", RoundHalfEven(x[1], 100 * x[2]), "")

\* percentage = (count / total) * 100; f"{percentage:.1f}%": a number of tenths
\* of a percent; with fewer than 32 rows a percentage half-way between two
\* tenths is a multiple of 1/16 and a double itself
FmtPct1(count, total) == Cell("pct.1f", RoundHalfEven(1000 * count, total), "")

\* city[:20] + "..." if len(city) > 20 else city
TruncateCity(city) ==
    IF Len(city) > CityNameWidth THEN SubSeq(city, 1, CityNameWidth) \o "..." ELSE city

(***************************************************************************)
(* generate_custom_cpt_report                                              *)
(***************************************************************************)
Unreadable == [columns |-> {"#unreadable"}, rows |-> <<>>]

Percentiles == <<25, 50, 75, 90, 95>>

Elem(sec, kind) == [sec |-> sec, kind |-> kind]

\* a report that holds nothing: the shape of every value of `report`
NoReport ==
    [status |-> "none", elements |-> <<>>, generated_on |-> NA,
     cpt_code |-> NA, total_records |-> 0,
     rate_stats |-> <<>>, stats_text |-> <<>>, xlim |-> <<>>,
     billing_data |-> <<>>, billing_rate_data |-> <<>>, neg_type_data |-> <<>>,
     city_data |-> <<>>, total_cities |-> 0, top_city |-> <<>>,
     city_names |-> <<>>, city_avg_rates |-> <<>>]

HasRates(df) == "negotiated_rate" \in df.columns /\ dropna(Column(df, "negotiated_rate")) # <<>>

\* df['billing_code'].iloc[0] raises IndexError on a table without rows
CptCodeRaises(df) == "billing_code" \in df.columns /\ df.rows = <<>>

CptCode(df, default) ==
    IF "billing_code" \in df.columns THEN df.rows[1].billing_code ELSE Some(default)

\* lines 95-117: the rows of the rate statistics table, header left out
RateStats(rates) ==
    <<  <<"Average Rate", FmtUsd2(mean(rates))>>,
        <<"Most Common Rate (Median)", FmtUsd2(median(rates))>>,
        <<"Lowest Rate Found", FmtUsd2(series_min(rates))>>,
        <<"Highest Rate Found", FmtUsd2(series_max(rates))>>,
        <<"Range (High - Low)", FmtUsd2(<<series_max(rates)[1] - series_min(rates)[1], 1>>)>>,
        <<"Total Providers Analyzed", FmtInt(Len(dropna(rates)))>>  >>
    \o [i \in 1..Len(Percentiles) |->
            <<"percentile", FmtInt(Percentiles[i]), FmtUsd2(quantile(rates, Percentiles[i]))>>]

\* the text on the histogram with the time of generation in its last line
StatsTextDated(rates) ==
    <<FmtUsd0(mean(rates)), FmtUsd0(median(rates)), FmtUsd0(series_min(rates)),
      FmtUsd0(series_max(rates)), FmtInt(Len(dropna(rates))), FmtInt(now)>>

\* lines 156-165: the text drawn on the histogram
StatsText(rates) ==
    <<FmtUsd0(mean(rates)), FmtUsd0(median(rates)), FmtUsd0(series_min(rates)),
      FmtUsd0(series_max(rates)), FmtInt(Len(dropna(rates)))>>

\* lines 174 and 450: plt.xlim(rates.min() * 0.95, rates.quantile(0.95) * 1.05)
XLim(rates) ==
    <<  <<95 * series_min(rates)[1], 100>>,
        <<105 * quantile(rates, 95)[1], 100 * quantile(rates, 95)[2]>>  >>

\* the distribution with the percentage taken of the rows that have a value
DistributionDataOfPresent(df, name) ==
    LET counts == value_counts(Column(df, name))
    IN  [i \in 1..Len(counts) |->
            <<counts[i].key, FmtInt(counts[i].count),
              FmtPct1(counts[i].count, Len(dropna(Column(df, name))))>>]

\* the cells of a column in the rows that have a rate
RECURSIVE RatedCells(_, _)
RatedCells(rows, name) ==
    IF rows = <<>> THEN <<>>
    ELSE (IF Head(rows).negotiated_rate # NA THEN <<Head(rows)[name]>> ELSE <<>>)
         \o RatedCells(Tail(rows), name)

\* the distribution taken over the rows that have a rate only
DistributionDataOfRated(df, name) ==
    LET counts == value_counts(RatedCells(df.rows, name))
    IN  [i \in 1..Len(counts) |->
            <<counts[i].key, FmtInt(counts[i].count),
              FmtPct1(counts[i].count, Len(RatedCells(df.rows, name)))>>]

\* lines 198-204 and 258-264: one row per entry of value_counts
DistributionData(df, name) ==
    LET counts == value_counts(Column(df, name))
    IN  [i \in 1..Len(counts) |->
            <<counts[i].key, FmtInt(counts[i].count), FmtPct1(counts[i].count, Len(df.rows))>>]

\* lines 220-230: one row per group of groupby('billing_class')
BillingRateData(df) ==
    LET groups == groupby(df, ClassNames, "billing_class", "negotiated_rate")
    IN  [i \in 1..Len(groups) |->
            <<groups[i].key,
              FmtUsd2(round2(mean(groups[i].cells))),
              FmtUsd2(round2(median(groups[i].cells))),
              FmtUsd2(std_round2(groups[i].cells)),
              FmtInt(Len(dropna(groups[i].cells)))>>]

\* line 294: df['city'].value_counts().sort_values(ascending=False)
CityStats(df) == sort_values_desc(value_counts(Column(df, "city")))

\* lines 300-321: one row per entry of city_stats
CityData(df) ==
    LET city_stats == CityStats(df)
    IN  [i \in 1..Len(city_stats) |->
            LET city == city_stats[i].key
                count == city_stats[i].count
                city_rates == SelectRows(df.rows, "city", city, "negotiated_rate")
            IN  IF "negotiated_rate" \in df.columns
                THEN <<Text(TruncateCity(city)), FmtInt(count), FmtPct1(count, Len(df.rows)),
                       FmtUsd0(mean(city_rates)), FmtUsd0(median(city_rates))>>
                ELSE <<Text(TruncateCity(city)), FmtInt(count), FmtPct1(count, Len(df.rows)),
                       Text("N/A"), Text("N/A")>>]

\* the chart cities with the cities that have no rate left out
RECURSIVE ReportChartCitiesWithRates(_, _)
ReportChartCitiesWithRates(df, top) ==
    IF top = <<>> THEN <<>>
    ELSE (IF "negotiated_rate" \in df.columns
             /\ dropna(SelectRows(df.rows, "city", Head(top).key, "negotiated_rate")) # <<>>
          THEN <<Head(top).key>> ELSE <<>>)
         \o ReportChartCitiesWithRates(df, Tail(top))

\* lines 348-357: the cities of the bar chart
RECURSIVE ReportChartCities(_, _)
ReportChartCities(df, top) ==
    IF top = <<>> THEN <<>>
    ELSE (IF "negotiated_rate" \in df.columns
             /\ Len(SelectRows(df.rows, "city", Head(top).key, "city")) > 0
          THEN <<Head(top).key>> ELSE <<>>)
         \o ReportChartCities(df, Tail(top))

ChartRates(df, names) ==
    [i \in 1..Len(names) |-> FmtUsd0(mean(SelectRows(df.rows, "city", names[i], "negotiated_rate")))]

\* city_stats.index[0] raises IndexError when no row has a city
GeoSummaryRaises(df) == "city" \in df.columns /\ CityStats(df) = <<>>

ReportElements(df) ==
    <<Elem("Title", "title"), Elem("Title", "metadata")>>
    \o <<Elem("Rate Analysis", "heading"), Elem("Rate Analysis", "text")>>
    \o (IF HasRates(df)
        THEN <<Elem("Rate Analysis", "table"), Elem("Rate Analysis", "chart")>> ELSE <<>>)
    \o (IF "billing_class" \in df.columns
        THEN <<Elem("Billing Class", "heading"), Elem("Billing Class", "table")>>
             \o (IF "negotiated_rate" \in df.columns
                 THEN <<Elem("Billing Class", "rate_table")>> ELSE <<>>)
        ELSE <<>>)
    \o (IF "negotiated_type" \in df.columns
        THEN <<Elem("Contract Type", "heading"), Elem("Contract Type", "text"),
               Elem("Contract Type", "table")>>
        ELSE <<>>)
    \o (IF "city" \in df.columns
        THEN <<Elem("Geographic Distribution", "heading"), Elem("Geographic Distribution", "text"),
               Elem("Geographic Distribution", "subheading"),
               Elem("Geographic Distribution", "table"),
               Elem("Geographic Distribution", "summary"),
               Elem("Geographic Distribution", "chart")>>
        ELSE <<>>)

generate_custom_cpt_report(f) ==
    IF f = Unreadable THEN [NoReport EXCEPT !.status = "load_error"]
    ELSE IF CptCodeRaises(f) \/ GeoSummaryRaises(f) THEN [NoReport EXCEPT !.status = "raised"]
    ELSE LET rates == Column(f, "negotiated_rate")
             geo == "city" \in f.columns
             names == IF geo THEN ReportChartCities(f, head(CityStats(f), TopCities)) ELSE <<>>
         IN  [status |-> "ok",
              elements |-> ReportElements(f),
              generated_on |-> Some(now),
              cpt_code |-> CptCode(f, "27130"),
              total_records |-> Len(f.rows),
              rate_stats |-> IF HasRates(f) THEN RateStats(rates) ELSE <<>>,
              stats_text |-> IF HasRates(f) THEN StatsText(rates) ELSE <<>>,
              xlim |-> IF HasRates(f) THEN XLim(rates) ELSE <<>>,
              billing_data |-> IF "billing_class" \in f.columns
                               THEN DistributionData(f, "billing_class") ELSE <<>>,
              billing_rate_data |-> IF {"billing_class", "negotiated_rate"} \subseteq f.columns
                                    THEN BillingRateData(f) ELSE <<>>,
              neg_type_data |-> IF "negotiated_type" \in f.columns
                                THEN DistributionData(f, "negotiated_type") ELSE <<>>,
              city_data |-> IF geo THEN CityData(f) ELSE <<>>,
              total_cities |-> IF geo THEN Len(CityStats(f)) ELSE 0,
              top_city |-> IF geo THEN <<CityStats(f)[1]>> ELSE <<>>,
              city_names |-> names,
              city_avg_rates |-> IF geo THEN ChartRates(f, names) ELSE <<>>]

(***************************************************************************)
(* show_report_preview                                                     *)
(***************************************************************************)
\* a preview that shows nothing: the shape of every value of `preview`
NoPreview ==
    [status |-> "none", elements |-> <<>>, generated_on |-> NA,
     cpt_code |-> NA, total_records |-> 0,
     metrics |-> <<>>, xlim |-> <<>>,
     billing_lines |-> <<>>, billing_avg |-> <<>>, neg_type_lines |-> <<>>,
     total_cities |-> 0, top_city |-> <<>>, top_lines |-> <<>>,
     city_names |-> <<>>, city_avg_rates |-> <<>>]

\* lines 460-468 and 481-486: one line per entry of value_counts
PreviewDistribution(df, name) ==
    LET counts == value_counts(Column(df, name))
    IN  [i \in 1..Len(counts) |->
            <<counts[i].key, FmtInt(counts[i].count), FmtPct1(counts[i].count, Len(df.rows))>>]

\* line 492: df['city'].value_counts().sort_values(ascending=False)
PreviewCityStats(df) == sort_values_desc(value_counts(Column(df, "city")))

\* line 499: city_stats.index[0] raises IndexError when no row has a city
PreviewSummaryRaises(df) == "city" \in df.columns /\ PreviewCityStats(df) = <<>>

\* lines 432-436: the st.metric values
Metrics(rates) ==
    <<FmtUsd2(mean(rates)), FmtUsd2(median(rates)), FmtUsd2(series_min(rates)),
      FmtUsd2(series_max(rates)), FmtInt(Len(dropna(rates)))>>

\* lines 473-475: the average of every class, in the order of billing_counts
BillingAverages(df) ==
    LET counts == value_counts(Column(df, "billing_class"))
    IN  [i \in 1..Len(counts) |->
            <<counts[i].key,
              FmtUsd2(mean(SelectRows(df.rows, "billing_class", counts[i].key, "negotiated_rate")))>>]

\* lines 502-504: the first ten cities of city_stats
TopLines(df) ==
    LET top == head(PreviewCityStats(df), PreviewCities)
    IN  [i \in 1..Len(top) |->
            <<top[i].key, FmtInt(top[i].count), FmtPct1(top[i].count, Len(df.rows))>>]

\* lines 513-518: the cities of the bar chart
RECURSIVE PreviewChartCities(_, _)
PreviewChartCities(df, top) ==
    IF top = <<>> THEN <<>>
    ELSE (IF Len(SelectRows(df.rows, "city", Head(top).key, "city")) > 0
          THEN <<Head(top).key>> ELSE <<>>)
         \o PreviewChartCities(df, Tail(top))

\* what is on the screen when the geographic section begins
PreviewElementsBeforeGeo(df) ==
    <<Elem("Title", "title"), Elem("Title", "metadata")>>
    \o <<Elem("Rate Analysis", "heading"), Elem("Rate Analysis", "text")>>
    \o (IF HasRates(df)
        THEN <<Elem("Rate Analysis", "table"), Elem("Rate Analysis", "chart")>> ELSE <<>>)
    \o (IF "billing_class" \in df.columns
        THEN <<Elem("Billing Class", "heading"), Elem("Billing Class", "table")>>
             \o (IF "negotiated_rate" \in df.columns
                 THEN <<Elem("Billing Class", "rate_table")>> ELSE <<>>)
        ELSE <<>>)
    \o (IF "negotiated_type" \in df.columns
        THEN <<Elem("Contract Type", "heading"), Elem("Contract Type", "table")>>
        ELSE <<>>)

PreviewElementsGeo(df) ==
    <<Elem("Geographic Distribution", "heading"), Elem("Geographic Distribution", "total_cities")>>
    \o (IF PreviewSummaryRaises(df) THEN <<>>
        ELSE <<Elem("Geographic Distribution", "top_city"), Elem("Geographic Distribution", "table")>>
             \o (IF "negotiated_rate" \in df.columns
                 THEN <<Elem("Geographic Distribution", "chart")>> ELSE <<>>))

show_report_preview(f) ==
    IF f = Unreadable THEN [NoPreview EXCEPT !.status = "load_error"]
    ELSE IF CptCodeRaises(f) THEN [NoPreview EXCEPT !.status = "raised"]
    ELSE LET rates == Column(f, "negotiated_rate")
             geo == "city" \in f.columns
             shown == geo /\ ~PreviewSummaryRaises(f)
             chart == shown /\ "negotiated_rate" \in f.columns
             names == IF chart THEN PreviewChartCities(f, head(PreviewCityStats(f), TopCities)) ELSE <<>>
         IN  [status |-> IF PreviewSummaryRaises(f) THEN "raised" ELSE "ok",
              elements |-> PreviewElementsBeforeGeo(f)
                           \o (IF geo THEN PreviewElementsGeo(f) ELSE <<>>)
                           \o (IF PreviewSummaryRaises(f) THEN <<>> ELSE <<Elem("Footer", "success")>>),
              generated_on |-> Some(now),
              cpt_code |-> CptCode(f, "27130"),
              total_records |-> Len(f.rows),
              metrics |-> IF HasRates(f) THEN Metrics(rates) ELSE <<>>,
              xlim |-> IF HasRates(f) THEN XLim(rates) ELSE <<>>,
              billing_lines |-> IF "billing_class" \in f.columns
                                THEN PreviewDistribution(f, "billing_class") ELSE <<>>,
              billing_avg |-> IF {"billing_class", "negotiated_rate"} \subseteq f.columns
                              THEN BillingAverages(f) ELSE <<>>,
              neg_type_lines |-> IF "negotiated_type" \in f.columns
                                 THEN PreviewDistribution(f, "negotiated_type") ELSE <<>>,
              total_cities |-> IF geo THEN Len(PreviewCityStats(f)) ELSE 0,
              top_city |-> IF shown THEN <<PreviewCityStats(f)[1]>> ELSE <<>>,
              top_lines |-> IF shown THEN TopLines(f) ELSE <<>>,
              city_names |-> names,
              city_avg_rates |-> IF chart THEN ChartRates(f, names) ELSE <<>>]

(***************************************************************************)
(* The datasets the input file is drawn from                               *)
(***************************************************************************)
AllColumns == {"billing_code", "billing_class", "negotiated_type", "negotiated_rate", "city"}

Row(class, type, rate, city) ==
    [billing_code |-> Some("27447"), billing_class |-> class, negotiated_type |-> type,
     negotiated_rate |-> rate, city |-> city]

SeqsUpTo(S, n) == UNION {[1..k -> S] : k \in 0..n}

\* the category values of a provider of kind k; kind 0 has none recorded
ClassOf(k) == IF k = 0 THEN NA ELSE Some(ClassNames[((k - 1) % Len(ClassNames)) + 1])
TypeOf(k) == IF k = 0 THEN NA ELSE Some(TypeNames[((k - 1) % Len(TypeNames)) + 1])
CityOf(k) == IF k = 0 THEN NA ELSE Some(CityNames[k])

\* city 17 has a name longer than the table shows
GeneralRows ==
    {Row(ClassOf(k), TypeOf(k), r, CityOf(c)) :
        k \in {0, 3, 5}, r \in {NA, Some(20100)}, c \in {1, 17}}

ExtraRows ==
    {Row(ClassOf(k), TypeOf(k), r, CityOf(k)) : k \in {0, 1, 2}, r \in {NA, Some(20100)}}

SchemaRows ==
    {Row(ClassOf(k), TypeOf(k), r, CityOf(k)) : k \in {0, 1}, r \in {NA, Some(10000)}}

\* rates of 100.04, 100.05 and 102.50 dollars
RateRows ==
    {Row(ClassOf(5), TypeOf(4), r, CityOf(2)) : r \in {NA, Some(10004), Some(10005), Some(10250)}}

\* row i of a wide dataset: a provider of kind i in a city of its own, every
\* fourth one without a rate
WideRow(i) ==
    Row(ClassOf(i), TypeOf(i), IF i % 4 = 0 THEN NA ELSE Some(10000 + 700 * i), CityOf(i))

\* the example of the specification: rates 100, 200, 300, 400, 500
ExampleRates == <<10000, 20000, 30000, 40000, 50000>>
ExampleDataset ==
    [columns |-> AllColumns,
     rows |-> [i \in 1..Len(ExampleRates) |-> Row(ClassOf(5), TypeOf(4), Some(ExampleRates[i]), CityOf(2))]]

Datasets ==
    {[columns |-> AllColumns, rows |-> rows] : rows \in SeqsUpTo(GeneralRows, MaxRows)}
    \cup {[columns |-> cols, rows |-> rows] :
            cols \in SUBSET AllColumns, rows \in SeqsUpTo(SchemaRows, MaxSchemaRows)}
    \cup {[columns |-> AllColumns, rows |-> rows] : rows \in SeqsUpTo(RateRows, MaxRateRows)}
    \cup {[columns |-> AllColumns, rows |-> [i \in 1..k |-> WideRow(i)] \o extra] :
            k \in 1..MaxWide, extra \in SeqsUpTo(ExtraRows, MaxExtra)}
    \cup {ExampleDataset}

(***************************************************************************)
(* The browser sessions of main.  Streamlit runs main from its first line  *)
(* on every interaction of a session, in a thread of the one server        *)
(* process; a button reads True only in the run its click started; the     *)
(* page shows what the last run rendered.                                  *)
(***************************************************************************)
Sessions == {"s1", "s2"}

SamplePath == "sample_data.csv"

\* line 604: temp_file_path = f"temp_{uploaded_file.name}"
TempPath(name) == "temp_" \o name

UploadA == [columns |-> AllColumns, rows |-> <<Row(ClassOf(5), TypeOf(4), Some(10000), CityOf(2))>>]
UploadB == [columns |-> AllColumns, rows |-> <<Row(ClassOf(2), TypeOf(1), Some(20100), CityOf(3))>>]
\* a file in which no row names a city: the summary of the cities raises
UploadNoCity == [columns |-> AllColumns, rows |-> <<Row(ClassOf(5), TypeOf(4), Some(10000), NA)>>]

\* the files each user has to upload: both have a rates.csv, of different
\* content
FilesOf ==
    [s \in Sessions |->
        IF s = "s1"
        THEN {[name |-> "rates.csv", data |-> UploadA],
              [name |-> "cities.csv", data |-> UploadNoCity]}
        ELSE {[name |-> "rates.csv", data |-> UploadB],
              [name |-> "rates.csv", data |-> Unreadable]}]

UploadedFiles == UNION {FilesOf[s] : s \in Sessions}

\* the users who work with the sample file as well
SampleUsers == {"s1"}

\* a session before its first interaction
NewSession ==
    [sample |-> FALSE,                  \* the "Use sample data file" checkbox
     uploaded |-> NA,                   \* the file of st.file_uploader
     preview_ready |-> FALSE,           \* st.session_state.preview_ready
     preview_ready_uploaded |-> FALSE,  \* st.session_state.preview_ready_uploaded
     pc |-> "idle",                     \* where the run of main stands
     clicked |-> "none",                \* the button whose click started the run
     can_preview |-> FALSE,             \* the page shows the Preview Report button
     offered |-> FALSE,                 \* the page shows the Download PDF Report button
     df |-> NA,                         \* what pd.read_csv gave the function the run called
     shown |-> NoPreview,               \* what show_report_preview rendered in the run
     built |-> NoReport,                \* what generate_custom_cpt_report built in the run
     previewed |-> {}]                  \* the sources whose preview has succeeded

Source(kind, name, data) == [kind |-> kind, name |-> name, data |-> data]

\* the flag set whenever the preview returns without raising
SetReadyOnReturn(flag, p) == flag \/ p.status \in {"ok", "load_error"}

\* the flag set whatever the preview did
SetReadyAlways(flag, p) == flag \/ p.status # "none"

\* lines 572-574 and 623-625: if preview_success: st.session_state... = True;
\* an exception of the preview is caught and leaves the flag alone
SetReady(flag, p) == flag \/ p.status = "ok"

\* the page a run starts from: nothing of the last run is left on it
Cleared(u, click) ==
    [u EXCEPT !.clicked = click, !.can_preview = FALSE, !.offered = FALSE,
              !.df = NA, !.shown = NoPreview, !.built = NoReport]

\* lines 565-602: a run with the checkbox ticked
SampleRun(u, click) ==
    LET p == IF click = "preview" THEN show_report_preview(file) ELSE NoPreview
        ready == SetReady(u.preview_ready, p)
        r == IF click = "download" /\ ready THEN generate_custom_cpt_report(file) ELSE NoReport
    IN  [Cleared(u, "none") EXCEPT
            !.preview_ready = ready,
            !.can_preview = TRUE,
            !.offered = ready,
            !.df = IF click = "none" THEN NA ELSE Some(file),
            !.shown = p,
            !.built = r,
            !.previewed = IF p.status = "ok"
                          THEN u.previewed \cup {Source("sample", SamplePath, file)}
                          ELSE u.previewed]

\* lines 620-657: the rest of a run on an uploaded file, once line 611 has
\* read the table; both functions read the file again
UploadedRun(u, data) ==
    LET p == IF u.clicked = "preview" THEN show_report_preview(data) ELSE NoPreview
        ready == SetReady(u.preview_ready_uploaded, p)
        r == IF u.clicked = "download" /\ ready
             THEN generate_custom_cpt_report(data) ELSE NoReport
    IN  [Cleared(u, "none") EXCEPT
            !.pc = "idle",
            !.preview_ready_uploaded = ready,
            !.can_preview = TRUE,
            !.offered = ready,
            !.df = IF u.clicked = "none" THEN NA ELSE Some(data),
            !.shown = p,
            !.built = r,
            !.previewed = IF p.status = "ok"
                          THEN u.previewed
                               \cup {Source("uploaded", u.uploaded[1].name, u.uploaded[1].data)}
                          ELSE u.previewed]

\* the start of a run of main for session s, whose widgets stand as in u
BeginRun(s, u, click) ==
    IF u.sample
    THEN /\ ui' = [ui EXCEPT ![s] = SampleRun(u, click)]
         /\ UNCHANGED disk
    ELSE IF u.uploaded = NA
    THEN /\ ui' = [ui EXCEPT ![s] = Cleared(u, "none")]
         /\ UNCHANGED disk
    ELSE \* lines 606-608: the uploaded bytes are written to temp_<name>
         /\ ui' = [ui EXCEPT ![s] = [Cleared(u, click) EXCEPT !.pc = "written"]]
         /\ disk' = [disk EXCEPT ![TempPath(u.uploaded[1].name)] = u.uploaded[1].data]

Idle(s) == ui[s].pc = "idle"

\* the working directory before the first upload: reading a file that is not
\* there fails as reading an unreadable one does
NoTempFiles == [path \in {TempPath(upload.name) : upload \in UploadedFiles} |-> Unreadable]

Frozen == UNCHANGED <<file, preview, report, earlier, preview_ready, sort_kind, now>>

\* the user picks a file in st.file_uploader
UploadFile(s) ==
    /\ Idle(s)
    /\ \E upload \in FilesOf[s] : BeginRun(s, [ui[s] EXCEPT !.uploaded = Some(upload)], "none")
    /\ Frozen

\* the user ticks or unticks the checkbox
ToggleSample(s) ==
    /\ s \in SampleUsers
    /\ Idle(s)
    /\ BeginRun(s, [ui[s] EXCEPT !.sample = ~ui[s].sample], "none")
    /\ Frozen

\* the user clicks "Preview Report"
PressPreview(s) ==
    /\ Idle(s)
    /\ ui[s].can_preview
    /\ BeginRun(s, ui[s], "preview")
    /\ Frozen

\* the user clicks "Download PDF Report"
PressDownload(s) ==
    /\ Idle(s)
    /\ ui[s].offered
    /\ BeginRun(s, ui[s], "download")
    /\ Frozen

\* line 611: df = pd.read_csv(temp_file_path); a failure ends the run at
\* line 656 with nothing but the error message on the page
ReadUploaded(s) ==
    /\ ui[s].pc = "written"
    /\ ui' = [ui EXCEPT ![s] =
                IF disk[TempPath(ui[s].uploaded[1].name)] = Unreadable
                THEN [Cleared(ui[s], "none") EXCEPT !.pc = "idle"]
                ELSE [ui[s] EXCEPT !.pc = "loaded"]]
    /\ UNCHANGED disk
    /\ Frozen

\* lines 620-654: the buttons of the upload branch
HandleButtons(s) ==
    /\ ui[s].pc = "loaded"
    /\ ui' = [ui EXCEPT ![s] = UploadedRun(ui[s], disk[TempPath(ui[s].uploaded[1].name)])]
    /\ UNCHANGED disk
    /\ Frozen

AppInit ==
    /\ file \in {UploadA, Unreadable}
    /\ preview = NoPreview
    /\ report = NoReport
    /\ earlier = NoReport
    /\ preview_ready = FALSE
    /\ sort_kind = "keeps_ties"    \* no uploaded table has two values of equal count
    /\ now = 0
    /\ ui = [s \in Sessions |-> NewSession]
    /\ disk = NoTempFiles

AppNext ==
    \E s \in Sessions :
        \/ UploadFile(s)
        \/ ToggleSample(s)
        \/ PressPreview(s)
        \/ PressDownload(s)
        \/ ReadUploaded(s)
        \/ HandleButtons(s)

AppSpec == AppInit /\ [][AppNext]_vars

(***************************************************************************)
(* main: the sample-file branch of one session, lines 565-602, over the    *)
(* datasets the sample file is drawn from                                  *)
(***************************************************************************)
Init ==
    /\ file \in Datasets \cup {Unreadable}
    /\ preview = NoPreview
    /\ report = NoReport
    /\ earlier = NoReport
    /\ preview_ready = FALSE
    /\ sort_kind \in SortKinds
    /\ now = 0
    /\ ui = [s \in Sessions |-> NewSession]
    /\ disk = NoTempFiles

\* the "Preview Report" button, lines 569-576
ClickPreview ==
    /\ preview' = show_report_preview(file)
    /\ preview_ready' = (preview_ready \/ preview'.status = "ok")
    /\ UNCHANGED <<file, report, earlier, sort_kind, now, ui, disk>>

\* the "Download PDF Report" button, lines 579-602
ClickDownload ==
    /\ preview_ready
    /\ report' = generate_custom_cpt_report(file)
    /\ earlier' = report
    /\ UNCHANGED <<file, preview, preview_ready, sort_kind, now, ui, disk>>

Next == ClickPreview \/ ClickDownload

Spec == Init /\ [][Next]_vars

(***************************************************************************)
(* The same session with the clock running, over the example of the        *)
(* specification under every schema                                        *)
(***************************************************************************)
Tick ==
    /\ now < MaxClock
    /\ now' = now + 1
    /\ UNCHANGED <<file, preview, report, earlier, preview_ready, sort_kind, ui, disk>>

ClockDatasets ==
    {[columns |-> cols, rows |-> ExampleDataset.rows] : cols \in SUBSET AllColumns}

ClockInit ==
    /\ file \in ClockDatasets \cup {Unreadable}
    /\ preview = NoPreview
    /\ report = NoReport
    /\ earlier = NoReport
    /\ preview_ready = FALSE
    /\ sort_kind \in SortKinds
    /\ now = 0
    /\ ui = [s \in Sessions |-> NewSession]
    /\ disk = NoTempFiles

ClockNext == ClickPreview \/ ClickDownload \/ Tick

ClockSpec == ClockInit /\ [][ClockNext]_vars

(***************************************************************************)
(* Properties                                                              *)
(***************************************************************************)
Built == report.status = "ok"
Shown == preview.status = "ok"

RECURSIVE SumCounts(_)
SumCounts(rows) == IF rows = <<>> THEN 0 ELSE Head(rows)[2].n + SumCounts(Tail(rows))

RECURSIVE SumPercent(_)
SumPercent(rows) == IF rows = <<>> THEN 0 ELSE Head(rows)[3].n + SumPercent(Tail(rows))

Abs(n) == IF n < 0 THEN -n ELSE n

\* the values of a column that are present, as a set
Present(df, name) == {df.rows[i][name][1] : i \in {j \in 1..Len(df.rows) : df.rows[j][name] # NA}}

\* the rows of the file whose cell in the column is not missing
NonMissing(df, name) == Cardinality({i \in 1..Len(df.rows) : df.rows[i][name] # NA})

(* C1: every number the preview shows equals the corresponding number of   *)
(* the exported document: the overall rate mean, median, min, max and      *)
(* count, the billing-class and contract-type counts, percentages and row  *)
(* order, the average rate of every billing class, the number of cities    *)
(* and the top city, and the cities and average rates of the bar chart.    *)
C1_PreviewEqualsReport ==
    (Shown /\ Built) =>
        /\ preview.metrics # <<>> =>
              /\ Len(report.rate_stats) >= 6
              /\ \A i \in 1..4 : preview.metrics[i] = report.rate_stats[i][2]
              /\ preview.metrics[5] = report.rate_stats[6][2]
        /\ preview.billing_lines = report.billing_data
        /\ preview.neg_type_lines = report.neg_type_data
        /\ \A i \in 1..Len(preview.billing_avg) :
              \E j \in 1..Len(report.billing_rate_data) :
                  /\ report.billing_rate_data[j][1] = preview.billing_avg[i][1]
                  /\ report.billing_rate_data[j][2] = preview.billing_avg[i][2]
        /\ preview.total_cities = report.total_cities
        /\ preview.top_city = report.top_city
        /\ Member(preview.elements, Elem("Geographic Distribution", "chart")) =>
              /\ preview.city_names = report.city_names
              /\ preview.city_avg_rates = report.city_avg_rates

C1_Witness ==
    /\ Shown /\ Built
    /\ preview.metrics # <<>>
    /\ Len(preview.billing_avg) >= 2
    /\ preview.billing_avg[1][2] # preview.billing_avg[2][2]
    /\ Len(preview.city_names) >= 2

(* C2: in the city table, a city that has rows but no rate in any of them  *)
(* shows "N/A" as its Average Rate and its Most Common Rate.               *)
C2_CityWithoutRatesShowsNA ==
    Built =>
        \A i \in 1..Len(report.city_data) :
            LET city == CityStats(file)[i].key
            IN  (\A r \in 1..Len(file.rows) :
                    file.rows[r].city = Some(city) =>
                        ("negotiated_rate" \notin file.columns \/ file.rows[r].negotiated_rate = NA))
                => /\ report.city_data[i][4] = Text("N/A")
                   /\ report.city_data[i][5] = Text("N/A")

(* C3: every cell of the billing-class rate summary is a finite number or  *)
(* the marker N/A; none carries a NaN, not even the standard deviation of  *)
(* a class with a single rate.                                             *)
C3_RateSummaryCellsFinite ==
    Built =>
        \A i \in 1..Len(report.billing_rate_data) :
            \A j \in 2..5 :
                \/ report.billing_rate_data[i][j].k # "text"
                \/ report.billing_rate_data[i][j] = Text("N/A")

DistributionSums(rows, present, total) ==
    /\ SumCounts(rows) = present
    /\ Abs(2 * total * SumPercent(rows) - 2000 * present) <= Len(rows) * total

C5_CityTable ==
    (Built /\ "city" \in file.columns) =>
        /\ Len(report.city_data) = Cardinality(Present(file, "city"))
        /\ SumCounts(report.city_data) = report.total_records
        /\ \A i \in 1..(Len(report.city_data) - 1) :
              report.city_data[i][2].n >= report.city_data[i + 1][2].n

\* the chart shows the cities of the first rows of a ranking, in its order
ChartIsHeadOf(names, ranking) ==
    /\ Len(names) = Min2(TopCities, Len(ranking))
    /\ \A i \in 1..Len(names) : Text(TruncateCity(names[i])) = ranking[i]

(* C6 as claimed: for every dataset with a city column the cities of the   *)
(* bar chart are the first min(15, number of cities) entries of the city   *)
(* ranking of the table, in the same order.                                *)
C6_Original ==
    (Built /\ "city" \in file.columns) =>
        ChartIsHeadOf(report.city_names, [i \in 1..Len(report.city_data) |-> report.city_data[i][1]])

(* C6 as amended: for every dataset with a city column and a               *)
(* negotiated_rate column the cities of the bar chart, in the document and *)
(* in the preview, are the first min(15, number of cities) entries of the  *)
(* city ranking of the table, in the same order; without a negotiated_rate *)
(* column no city is plotted.                                              *)
C6_ChartIsTopOfRanking ==
    /\ (Built /\ "city" \in file.columns) =>
          IF "negotiated_rate" \in file.columns
          THEN ChartIsHeadOf(report.city_names,
                             [i \in 1..Len(report.city_data) |-> report.city_data[i][1]])
          ELSE report.city_names = <<>>
    /\ (Shown /\ Built /\ "city" \in file.columns) =>
          IF "negotiated_rate" \in file.columns
          THEN ChartIsHeadOf(preview.city_names,
                             [i \in 1..Len(report.city_data) |-> report.city_data[i][1]])
          ELSE preview.city_names = <<>>

C6_Witness ==
    /\ Shown /\ Built
    /\ Len(report.city_data) > TopCities
    /\ Len(report.city_names) = TopCities
    /\ Len(preview.city_names) = TopCities
    /\ report.city_data[1][2].n > report.city_data[2][2].n

\* the displayed cents of the percentile rows of the rate table
PercentileCents(i) == report.rate_stats[6 + i][3].n

(* C7: for every non-empty sequence of rates the reported values satisfy   *)
(* min <= p25 <= p50 <= p75 <= p90 <= p95 <= max.                          *)
C7_PercentilesOrdered ==
    (Built /\ report.rate_stats # <<>>) =>
        /\ report.rate_stats[3][2].n <= PercentileCents(1)
        /\ \A i \in 1..4 : PercentileCents(i) <= PercentileCents(i + 1)
        /\ PercentileCents(5) <= report.rate_stats[4][2].n

C7_Witness ==
    /\ Built /\ report.rate_stats # <<>>
    /\ report.rate_stats[3][2].n < PercentileCents(1)
    /\ \A i \in 1..4 : PercentileCents(i) < PercentileCents(i + 1)
    /\ PercentileCents(5) < report.rate_stats[4][2].n
    /\ file.rows[1].negotiated_rate # NA /\ file.rows[2].negotiated_rate # NA
    /\ file.rows[1].negotiated_rate[1] > file.rows[2].negotiated_rate[1]

\* the rates of the file that are present, as a bag: value -> occurrences
RateBag(v) == Cardinality({i \in 1..Len(file.rows) : file.rows[i].negotiated_rate = Some(v)})
RateValues == Present(file, "negotiated_rate")

\* the k-th smallest rate (k from 0): the least value with more than k rates at or below it
Ranked(k) ==
    CHOOSE v \in RateValues :
        /\ Cardinality({i \in 1..Len(file.rows) :
                /\ file.rows[i].negotiated_rate # NA
                /\ file.rows[i].negotiated_rate[1] <= v}) > k
        /\ Cardinality({i \in 1..Len(file.rows) :
                /\ file.rows[i].negotiated_rate # NA
                /\ file.rows[i].negotiated_rate[1] < v}) <= k

(* C8: every reported percentile p is the linear interpolation between the *)
(* sorted rates next to position p/100 * (n-1), shown to the cent (a cent  *)
(* nearest to it); rates 100, 200, 300, 400, 500 give p25 = 200,           *)
(* p50 = 300, p75 = 400 and range 400; a single rate gives every           *)
(* percentile that rate and range 0.                                       *)
C8_PercentilesInterpolate ==
    (Built /\ report.rate_stats # <<>>) =>
        LET n == NonMissing(file, "negotiated_rate")
        IN  /\ \A i \in 1..Len(Percentiles) :
                  LET pos == Percentiles[i] * (n - 1)
                      below == Ranked(pos \div 100)
                      above == IF pos % 100 = 0 THEN below ELSE Ranked(pos \div 100 + 1)
                  IN  Abs(100 * PercentileCents(i)
                            - (100 * below + (pos % 100) * (above - below))) <= 50
            /\ (\A v \in {10000, 20000, 30000, 40000, 50000} : RateBag(v) = 1) /\ n = 5 =>
                  /\ PercentileCents(1) = 20000
                  /\ PercentileCents(2) = 30000
                  /\ PercentileCents(3) = 40000
                  /\ report.rate_stats[5][2].n = 40000
            /\ n = 1 =>
                  /\ \A i \in 1..Len(Percentiles) :
                        \A v \in RateValues : PercentileCents(i) = v
                  /\ report.rate_stats[5][2].n = 0

C8_Witness ==
    /\ Built
    /\ file = ExampleDataset
    /\ PercentileCents(4) = 46000

Rateless(df) ==
    /\ "negotiated_rate" \in df.columns
    /\ df.rows # <<>>
    /\ \A i \in 1..Len(df.rows) : df.rows[i].negotiated_rate = NA

(* C9: when the negotiated_rate column is present and holds no value, the  *)
(* Rate Analysis section is left out of the document and of the preview    *)
(* altogether: no heading, no text, no table, no chart.                    *)
C9_NoRateSectionWithoutRates ==
    /\ (Built /\ Rateless(file)) =>
          \A i \in 1..Len(report.elements) : report.elements[i].sec # "Rate Analysis"
    /\ (Shown /\ Rateless(file)) =>
          \A i \in 1..Len(preview.elements) : preview.elements[i].sec # "Rate Analysis"

\* the sections of a document, in the order of their first element
Sections(elements) == unique([i \in 1..Len(elements) |-> elements[i].sec])

(* C10: the document holds exactly the sections whose column is present,   *)
(* in the order Title, Rate Analysis, Billing Class, Contract Type,        *)
(* Geographic Distribution; an absent column removes its whole section.    *)
C10_SectionsFollowColumns ==
    (Built /\ file.rows # <<>>) =>
        Sections(report.elements) =
            <<"Title">>
            \o (IF "negotiated_rate" \in file.columns THEN <<"Rate Analysis">> ELSE <<>>)
            \o (IF "billing_class" \in file.columns THEN <<"Billing Class">> ELSE <<>>)
            \o (IF "negotiated_type" \in file.columns THEN <<"Contract Type">> ELSE <<>>)
            \o (IF "city" \in file.columns THEN <<"Geographic Distribution">> ELSE <<>>)

\* a call that got past reading the file
Attempted(r) == r.status \notin {"none", "load_error"}

\* the title and the metadata block: billing code, record count, timestamp
HasTitleBlock(r) ==
    /\ Member(r.elements, Elem("Title", "title"))
    /\ Member(r.elements, Elem("Title", "metadata"))
    /\ r.cpt_code # NA
    /\ r.total_records = Len(file.rows)
    /\ r.generated_on # NA

(* C11: the title and metadata block is produced for every dataset that    *)
(* loads, a dataset with a billing_code column and no rows included, by    *)
(* the preview and by the document.                                        *)
C11_TitleBlockAlways ==
    /\ Attempted(preview) => HasTitleBlock(preview)
    /\ Attempted(report) => HasTitleBlock(report)

\* the rows of the file that hold value v in a column
RowsWith(df, name, v) == Cardinality({i \in 1..Len(df.rows) : df.rows[i][name] = Some(v)})

\* what the first cell of a table row shows of a value of the column
Label(name, v) == IF name = "city" THEN Text(TruncateCity(v)) ELSE v

\* a table has one row per value of the column; the row counts every record
\* with that value and its percentage is the tenth nearest to the share of
\* all records
CountsAllRecords(table, df, name) ==
    /\ \A v \in Present(df, name) : \E i \in 1..Len(table) : table[i][1] = Label(name, v)
    /\ \A i \in 1..Len(table) :
          \E v \in Present(df, name) :
              /\ table[i][1] = Label(name, v)
              /\ table[i][2].n = RowsWith(df, name, v)
              /\ 2 * Abs(table[i][3].n * Len(df.rows) - 1000 * RowsWith(df, name, v)) <= Len(df.rows)

(* C13: a row without a rate is left out of the rate statistics and is     *)
(* still counted in the billing-class, contract-type and city tables, and  *)
(* every displayed percentage is taken of the total number of records.     *)
C13_MissingRateRowsCounted ==
    Built =>
        /\ report.rate_stats # <<>> =>
              report.rate_stats[6][2].n = NonMissing(file, "negotiated_rate")
        /\ "negotiated_rate" \in file.columns /\ NonMissing(file, "negotiated_rate") = 0 =>
              report.rate_stats = <<>>
        /\ "billing_class" \in file.columns =>
              CountsAllRecords(report.billing_data, file, "billing_class")
        /\ "negotiated_type" \in file.columns =>
              CountsAllRecords(report.neg_type_data, file, "negotiated_type")
        /\ "city" \in file.columns => CountsAllRecords(report.city_data, file, "city")

C13_Witness ==
    /\ Built
    /\ report.rate_stats # <<>>
    /\ Len(report.billing_data) >= 2
    /\ \E i \in 1..Len(file.rows) :
          /\ file.rows[i].negotiated_rate = NA
          /\ file.rows[i].billing_class # NA
          /\ file.rows[i].city # NA
          /\ \A j \in 1..Len(file.rows) :
                file.rows[j].billing_class = file.rows[i].billing_class =>
                    file.rows[j].negotiated_rate = NA

\* the row of the file in which a value of a column appears first
FirstSeen(df, name, v) ==
    CHOOSE i \in 1..Len(df.rows) :
        /\ df.rows[i][name] = Some(v)
        /\ \A j \in 1..(i - 1) : df.rows[j][name] # Some(v)

\* the value of the column a table row stands for
KeyOf(cell, df, name) == CHOOSE v \in Present(df, name) : cell = Label(name, v)

\* descending by count, rows of equal count in the order of first appearance
StablyRanked(table, df, name) ==
    \A i, j \in 1..Len(table) :
        i < j =>
            \/ table[i][2].n > table[j][2].n
            \/ /\ table[i][2].n = table[j][2].n
               /\ FirstSeen(df, name, KeyOf(table[i][1], df, name))
                    < FirstSeen(df, name, KeyOf(table[j][1], df, name))

(* C14: the rows of the billing-class, contract-type and city tables are   *)
(* ordered by descending count, rows of equal count in the order in which  *)
(* their values first appear in the dataset.                               *)
C14_StableTieBreak ==
    Built =>
        /\ "billing_class" \in file.columns => StablyRanked(report.billing_data, file, "billing_class")
        /\ "negotiated_type" \in file.columns =>
              StablyRanked(report.neg_type_data, file, "negotiated_type")
        /\ "city" \in file.columns => StablyRanked(report.city_data, file, "city")

\* the summary names the number of cities and a city no other city outnumbers
GeoSummaryRight(r, df) ==
    /\ r.status = "ok"
    /\ r.total_cities = Cardinality(Present(df, "city"))
    /\ Len(r.top_city) = 1
    /\ r.top_city[1].key \in Present(df, "city")
    /\ r.top_city[1].count = RowsWith(df, "city", r.top_city[1].key)
    /\ \A v \in Present(df, "city") : RowsWith(df, "city", v) <= r.top_city[1].count

(* C19: for every dataset with a city column, one in which no row has a    *)
(* city included, the Geographic Distribution section is built without     *)
(* failure; its summary reports the number of rows of the city table as    *)
(* the number of cities and the first row of the ranking, a city of        *)
(* maximal count, as the top city.                                         *)
C19_GeoSummaryBuilt ==
    /\ (Attempted(report) /\ "city" \in file.columns /\ ~CptCodeRaises(file)) =>
          /\ GeoSummaryRight(report, file)
          /\ report.total_cities = Len(report.city_data)
          /\ report.city_data[1][1] = Text(TruncateCity(report.top_city[1].key))
    /\ (Attempted(preview) /\ "city" \in file.columns /\ ~CptCodeRaises(file)) =>
          GeoSummaryRight(preview, file)

\* a document without the time it was generated at
Undated(r) == [r EXCEPT !.generated_on = NA]

(* C12: two builds of the document from the same dataset have the same     *)
(* sections, table rows and chart data; they differ in the timestamp of    *)
(* the metadata at most.                                                   *)
C12_BuildsDifferInTimestampOnly ==
    (Attempted(report) /\ Attempted(earlier)) => Undated(report) = Undated(earlier)

C12_Witness ==
    /\ report.status = "ok" /\ earlier.status = "ok"
    /\ report.generated_on # earlier.generated_on
    /\ report.rate_stats # <<>>
    /\ report.city_names # <<>>

\* the run of main that session s ends in this step called a function that
\* could not read its file
LoadFailedIn(s) == ui'[s] # ui[s] /\ ui'[s].df = Some(Unreadable)

(* C15: when the file cannot be read, show_report_preview and              *)
(* generate_custom_cpt_report stop before any aggregation and hand the     *)
(* failure to the caller: nothing is rendered, no document is built, and   *)
(* the run leaves the preview-ready flags as they were.                    *)
C15_LoadFailureStopsRun ==
    [][\A s \in Sessions :
        LoadFailedIn(s) =>
            /\ ui'[s].shown \in {NoPreview, [NoPreview EXCEPT !.status = "load_error"]}
            /\ ui'[s].built \in {NoReport, [NoReport EXCEPT !.status = "load_error"]}
            /\ "load_error" \in {ui'[s].shown.status, ui'[s].built.status}
            /\ ui'[s].preview_ready = ui[s].preview_ready
            /\ ui'[s].preview_ready_uploaded = ui[s].preview_ready_uploaded]_vars

C15_Witness ==
    \E s \in Sessions :
        /\ ui[s].df = Some(Unreadable)
        /\ ui[s].shown.status = "load_error"
        /\ ~ui[s].offered

\* the kind of source the page of a session works on
KindOf(u) == IF u.sample THEN "sample" ELSE "uploaded"

(* C16: in every session the download button is on the page only if a     *)
(* preview of the same kind of source (the sample file, an uploaded file)  *)
(* has succeeded before in that session; a preview that failed to load or  *)
(* raised, and a preview of another session, enable nothing.               *)
C16_DownloadOnlyAfterPreview ==
    \A s \in Sessions :
        /\ ui[s].offered => \E src \in ui[s].previewed : src.kind = KindOf(ui[s])
        /\ ui[s].preview_ready => \E src \in ui[s].previewed : src.kind = "sample"
        /\ ui[s].preview_ready_uploaded => \E src \in ui[s].previewed : src.kind = "uploaded"

C16_Witness ==
    \E s, t \in Sessions :
        /\ s # t
        /\ ui[s].offered /\ ui[s].shown.status = "ok"
        /\ ui[t].shown.status = "raised" /\ ui[t].can_preview /\ ~ui[t].offered

(* C17: whenever the download button is on the page for an uploaded file,  *)
(* a preview of that same file has succeeded before in the session.        *)
C17_DownloadOnlyForPreviewedFile ==
    \A s \in Sessions :
        (Idle(s) /\ ~ui[s].sample /\ ui[s].offered) =>
            Source("uploaded", ui[s].uploaded[1].name, ui[s].uploaded[1].data)
                \in ui[s].previewed

(* C18: in every interleaving of two sessions, the table the preview and   *)
(* the document of a session are computed from is the file that session    *)
(* uploaded.                                                               *)
C18_OwnFileOnly ==
    \A s \in Sessions :
        (~ui[s].sample /\ ui[s].df # NA) => ui[s].df = Some(ui[s].uploaded[1].data)

====
